---------------------------- MODULE Spec2Model ----------------------------
(* A model of Wallet::TransactionHistoryImpl                               *)
(* (src/wallet/api/transaction_history.cpp): the history collection        *)
(* m_history of owned TransactionInfo objects, the shared mutex            *)
(* m_historyMutex, the four readers and refresh(), run by several threads  *)
(* against a wallet (the Ledger) whose contents may change and whose       *)
(* calls may throw.                                                        *)
EXTENDS Integers, Naturals, Sequences, FiniteSets, Bags, TLC

-----------------------------------------------------------------------------
(* uint64_t.  TLC's integers are 32 bits wide, so a uint64_t is kept as    *)
(* four 16-bit limbs, least significant first, and the arithmetic of the   *)
(* source (subtraction and comparison, both modulo 2^64) is done on limbs. *)

LimbBase == 2 ^ 16

\* A small natural as a uint64_t.
U64(n) == << n % LimbBase, (n \div LimbBase) % LimbBase, 0, 0 >>

\* (uint64_t)-1
UINT64_MAX == << LimbBase - 1, LimbBase - 1, LimbBase - 1, LimbBase - 1 >>

\* a - b on uint64_t: limb-wise with borrow, the final borrow dropped.
Sub64(a, b) ==
    LET d1 == a[1] - b[1]
        b1 == IF d1 < 0 THEN 1 ELSE 0
        d2 == a[2] - b[2] - b1
        b2 == IF d2 < 0 THEN 1 ELSE 0
        d3 == a[3] - b[3] - b2
        b3 == IF d3 < 0 THEN 1 ELSE 0
        d4 == a[4] - b[4] - b3
    IN  << (d1 + LimbBase) % LimbBase, (d2 + LimbBase) % LimbBase,
           (d3 + LimbBase) % LimbBase, (d4 + LimbBase) % LimbBase >>

\* a > b on uint64_t.
Gt64(a, b) ==
    \/ a[4] > b[4]
    \/ a[4] = b[4] /\ a[3] > b[3]
    \/ a[4] = b[4] /\ a[3] = b[3] /\ a[2] > b[2]
    \/ a[4] = b[4] /\ a[3] = b[3] /\ a[2] = b[2] /\ a[1] > b[1]

-----------------------------------------------------------------------------
(* crypto::hash and its hexadecimal rendering.                             *)

\* sizeof(crypto::hash), in bytes.
HASH_SIZE == 32

HexDigits == << "0", "1", "2", "3", "4", "5", "6", "7",
                "8", "9", "a", "b", "c", "d", "e", "f" >>

\* tools::type_to_hex: two lowercase hexadecimal digits per byte.
type_to_hex(bytes) ==
    [ k \in 1..(2 * Len(bytes)) |->
        LET byte == bytes[(k + 1) \div 2]
        IN  IF k % 2 = 1 THEN HexDigits[(byte \div 16) + 1]
                         ELSE HexDigits[(byte % 16) + 1] ]

\* std::string::substr(pos): the characters from 0-based position pos on.
substr_from(str, pos) == SubSeq(str, pos + 1, Len(str))

\* std::string::substr(0, n): the first n characters.
substr_first(str, n) == SubSeq(str, 1, IF n < Len(str) THEN n ELSE Len(str))

\* str.find_first_not_of('0') == std::string::npos
all_zero_chars(str) == \A k \in 1..Len(str) : str[k] = "0"

\* A variant that looks for a non-zero character one position later.
payment_id_of_late(raw) ==
    LET payment_id == type_to_hex(raw)
    IN  IF all_zero_chars(substr_from(payment_id, 17))
        THEN substr_first(payment_id, 16)
        ELSE payment_id

\* The payment id of a record, as each branch of refresh() computes it.
payment_id_of(raw) ==
    LET payment_id == type_to_hex(raw)
    IN  IF all_zero_chars(substr_from(payment_id, 16))
        THEN substr_first(payment_id, 16)
        ELSE payment_id

-----------------------------------------------------------------------------
(* The wallet (tools::wallet2, "the Ledger") as refresh() sees it.         *)

\* A crypto::hash whose first byte is b and whose other bytes are zero.
HashOf(b) == [ k \in 1..HASH_SIZE |-> IF k = 1 THEN b ELSE 0 ]

\* A crypto::hash holding byte b at (1-based) position pos, zero elsewhere.
HashWithByte(pos, b) == [ k \in 1..HASH_SIZE |-> IF k = pos THEN b ELSE 0 ]

\* An 8-byte (short) payment id padded with zero bytes to a crypto::hash.
ShortPaymentId ==
    [ k \in 1..HASH_SIZE |-> IF k <= 8 THEN 160 + k ELSE 0 ]

\* A 32-byte (long) payment id: no zero tail.
LongPaymentId == [ k \in 1..HASH_SIZE |-> 16 + k ]

\* cryptonote::null_hash
null_hash == [ k \in 1..HASH_SIZE |-> 0 ]

\* wallet2::get_subaddress_label({major, minor})
get_subaddress_label(major, minor) ==
    IF major = 0 /\ minor = 0 THEN "Primary account"
    ELSE IF major = 0 THEN "Savings" ELSE ""

\* wallet2::nettype()
nettype == "MAINNET"

\* tx_destination_entry::address(nettype, payment_id)
address_of(d, net, payment_id) ==
    << net, d.addr, IF payment_id = null_hash THEN "standard" ELSE "integrated" >>

\* wallet::pay_type values a payment can carry: the enumerators, and a value
\* that is none of them.
PayTypes == { "unspecified", "in", "out", "stake", "miner", "service_node",
              "governance", "invalid" }

\* One entry of wallet2::get_payments / get_unconfirmed_payments:
\* (payment id, payment_details).
Payment(pid, txb, amount, height, minor, ptype) ==
    [ first  |-> pid,
      second |-> [ m_tx_hash       |-> HashOf(txb),
                   m_amount        |-> amount,
                   m_block_height  |-> height,
                   m_subaddr_index |-> [ major |-> 0, minor |-> minor ],
                   m_timestamp     |-> 1000 + txb,
                   m_unlock_time   |-> IF ptype = "miner" THEN 30 ELSE 0,
                   m_type          |-> ptype ] ]

\* One entry of wallet2::get_payments_out: (tx hash, confirmed_transfer_details).
ConfirmedOut(txb, pid, ain, aout, change, height, indices, ptype, dests) ==
    [ first  |-> HashOf(txb),
      second |-> [ m_payment_id      |-> pid,
                   m_amount_in       |-> ain,
                   m_amount_out      |-> aout,
                   m_change          |-> change,
                   m_block_height    |-> height,
                   m_subaddr_account |-> 0,
                   m_subaddr_indices |-> indices,
                   m_timestamp       |-> 1000 + txb,
                   m_pay_type        |-> ptype,
                   m_dests           |-> dests ] ]

\* One entry of wallet2::get_unconfirmed_payments_out:
\* (tx hash, unconfirmed_transfer_details).
UnconfirmedOut(txb, pid, ain, aout, change, state, indices, ptype) ==
    [ first  |-> HashOf(txb),
      second |-> [ m_payment_id      |-> pid,
                   m_amount_in       |-> ain,
                   m_amount_out      |-> aout,
                   m_change          |-> change,
                   m_state           |-> state,
                   m_subaddr_account |-> 0,
                   m_subaddr_indices |-> indices,
                   m_timestamp       |-> 1000 + txb,
                   m_pay_type        |-> ptype ] ]

\* The wallet's contents: the chain height and the four record sources.
Wallet(height, in, out, uout, pool) ==
    [ height                   |-> height,
      payments                 |-> in,
      payments_out             |-> out,
      unconfirmed_payments_out |-> uout,
      unconfirmed_payments     |-> pool ]

-----------------------------------------------------------------------------
(* The normalisation of one source record, as the four loops of refresh()  *)
(* compute it.                                                             *)

\* TransactionInfoImpl::TransactionInfoImpl(): a record with default fields.
TransactionInfoImpl ==
    [ m_paymentid      |-> << >>,
      m_amount         |-> U64(0),
      m_fee            |-> U64(0),
      m_direction      |-> "Direction_In",
      m_hash           |-> << >>,
      m_blockheight    |-> U64(0),
      m_subaddrIndex   |-> {},
      m_subaddrAccount |-> 0,
      m_label          |-> "",
      m_timestamp      |-> 0,
      m_confirmations  |-> U64(0),
      m_unlock_time    |-> 0,
      m_reward_type    |-> "unspecified",
      m_is_stake       |-> FALSE,
      m_pending        |-> FALSE,
      m_failed         |-> FALSE,
      m_transfers      |-> << >> ]

\* A variant that passes the value on as it is.
from_pay_type_cast(ptype) == ptype

\* from_pay_type: service_node and miner map to themselves, the rest to
\* unspecified.
from_pay_type(ptype) ==
    CASE ptype = "service_node" -> "service_node"
      [] ptype = "miner"        -> "miner"
      [] OTHER                  -> "unspecified"

\* A variant without the comparison: wallet_height - pd.m_block_height.
confirmations_unguarded(wallet_height, block_height) ==
    Sub64(wallet_height, block_height)

\* (wallet_height > pd.m_block_height) ? wallet_height - pd.m_block_height : 0
confirmations_of(wallet_height, block_height) ==
    IF Gt64(wallet_height, block_height)
    THEN Sub64(wallet_height, block_height)
    ELSE U64(0)

\* A variant without the sentinel: pd.m_change as it is.
raw_change(m_change) == m_change

\* pd.m_change == (uint64_t)-1 ? 0 : pd.m_change
known_change(m_change) ==
    IF m_change = UINT64_MAX THEN U64(0) ELSE m_change

\* The label of an outgoing record: set only with exactly one subaddress index.
label_of_indices(account, indices) ==
    IF Cardinality(indices) = 1
    THEN get_subaddress_label(account, CHOOSE x \in indices : TRUE)
    ELSE ""

\* Whether the loop body for this record calls wallet2::get_subaddress_label.
calls_label(indices) == Cardinality(indices) = 1

\* A variant that fills the transfers only for two destinations or more.
transfers_if_multiple(pd) ==
    IF Len(pd.m_dests) >= 2
    THEN [ k \in 1..Len(pd.m_dests) |->
             [ amount  |-> pd.m_dests[k].amount,
               address |-> address_of(pd.m_dests[k], nettype, pd.m_payment_id) ] ]
    ELSE << >>

\* for (const auto& d : pd.m_dests)
\*     ti->m_transfers.push_back({d.amount, d.address(w->nettype(), pd.m_payment_id)});
transfers_of(pd) ==
    [ k \in 1..Len(pd.m_dests) |->
        [ amount  |-> pd.m_dests[k].amount,
          address |-> address_of(pd.m_dests[k], nettype, pd.m_payment_id) ] ]

\* A variant that takes the fee for the amount sent.
fee_swapped(amount_in, amount_out) == Sub64(amount_out, amount_in)

\* uint64_t fee = pd.m_amount_in - pd.m_amount_out;
fee_of(amount_in, amount_out) == Sub64(amount_in, amount_out)

\* ti->m_amount = amount_in - change - fee;
amount_of(amount_in, change, fee) == Sub64(Sub64(amount_in, change), fee)

\* A variant that takes every state but pending for a failure.
is_failed_unless_pending(state) == state # "pending"

\* bool is_failed = pd.m_state == tools::wallet2::unconfirmed_transfer_details::failed;
is_failed_of(state) == state = "failed"

\* Loop 1: a confirmed incoming payment.
info_payment(i, wallet_height) ==
    LET pd == i.second
    IN  [ TransactionInfoImpl EXCEPT
            !.m_paymentid      = payment_id_of(i.first),
            !.m_amount         = pd.m_amount,
            !.m_direction      = "Direction_In",
            !.m_hash           = type_to_hex(pd.m_tx_hash),
            !.m_blockheight    = pd.m_block_height,
            !.m_subaddrIndex   = { pd.m_subaddr_index.minor },
            !.m_subaddrAccount = pd.m_subaddr_index.major,
            !.m_label          = get_subaddress_label(pd.m_subaddr_index.major,
                                                      pd.m_subaddr_index.minor),
            !.m_timestamp      = pd.m_timestamp,
            !.m_confirmations  = confirmations_of(wallet_height, pd.m_block_height),
            !.m_unlock_time    = pd.m_unlock_time,
            !.m_reward_type    = from_pay_type(pd.m_type),
            !.m_is_stake       = (pd.m_type = "stake") ]

\* Loop 2: a confirmed outgoing transfer.
info_payment_out(i, wallet_height) ==
    LET hash   == i.first
        pd     == i.second
        change == known_change(pd.m_change)
        fee    == fee_of(pd.m_amount_in, pd.m_amount_out)
    IN  [ TransactionInfoImpl EXCEPT
            !.m_paymentid      = payment_id_of(pd.m_payment_id),
            !.m_amount         = amount_of(pd.m_amount_in, change, fee),
            !.m_fee            = fee,
            !.m_direction      = "Direction_Out",
            !.m_hash           = type_to_hex(hash),
            !.m_blockheight    = pd.m_block_height,
            !.m_subaddrIndex   = pd.m_subaddr_indices,
            !.m_subaddrAccount = pd.m_subaddr_account,
            !.m_label          = label_of_indices(pd.m_subaddr_account,
                                                  pd.m_subaddr_indices),
            !.m_timestamp      = pd.m_timestamp,
            !.m_confirmations  = confirmations_of(wallet_height, pd.m_block_height),
            !.m_is_stake       = (pd.m_pay_type = "stake"),
            !.m_transfers      = transfers_of(pd) ]

\* Loop 3: a pending (unconfirmed) outgoing transfer.
info_unconfirmed_out(i, wallet_height) ==
    LET hash      == i.first
        pd        == i.second
        amount    == pd.m_amount_in
        fee       == fee_of(amount, pd.m_amount_out)
        is_failed == is_failed_of(pd.m_state)
    IN  [ TransactionInfoImpl EXCEPT
            !.m_paymentid      = payment_id_of(pd.m_payment_id),
            !.m_amount         = amount_of(amount, pd.m_change, fee),
            !.m_fee            = fee,
            !.m_direction      = "Direction_Out",
            !.m_failed         = is_failed,
            !.m_pending        = TRUE,
            !.m_hash           = type_to_hex(hash),
            !.m_subaddrIndex   = pd.m_subaddr_indices,
            !.m_subaddrAccount = pd.m_subaddr_account,
            !.m_label          = label_of_indices(pd.m_subaddr_account,
                                                  pd.m_subaddr_indices),
            !.m_timestamp      = pd.m_timestamp,
            !.m_confirmations  = U64(0),
            !.m_is_stake       = (pd.m_pay_type = "stake") ]

\* Loop 4: a pending incoming payment (tx pool).
info_unconfirmed_payment(i, wallet_height) ==
    LET pd == i.second.m_pd
    IN  [ TransactionInfoImpl EXCEPT
            !.m_paymentid      = payment_id_of(i.first),
            !.m_amount         = pd.m_amount,
            !.m_direction      = "Direction_In",
            !.m_hash           = type_to_hex(pd.m_tx_hash),
            !.m_blockheight    = pd.m_block_height,
            !.m_pending        = TRUE,
            !.m_subaddrIndex   = { pd.m_subaddr_index.minor },
            !.m_subaddrAccount = pd.m_subaddr_index.major,
            !.m_label          = get_subaddress_label(pd.m_subaddr_index.major,
                                                      pd.m_subaddr_index.minor),
            !.m_timestamp      = pd.m_timestamp,
            !.m_confirmations  = U64(0),
            !.m_unlock_time    = pd.m_unlock_time,
            !.m_reward_type    = from_pay_type(pd.m_type),
            !.m_is_stake       = (pd.m_type = "stake") ]

-----------------------------------------------------------------------------
(* The wallets the store is run against.                                   *)

\* One entry of wallet2::get_unconfirmed_payments: (payment id, pool_payment_details).
PoolPayment(pid, txb, amount, height, minor, ptype) ==
    LET e == Payment(pid, txb, amount, height, minor, ptype)
    IN  [ first  |-> e.first,
          second |-> [ m_pd |-> e.second, m_double_spend_seen |-> FALSE ] ]

\* A destination of an outgoing transfer.
Dest(amount, addr) == [ amount |-> amount, addr |-> addr ]

\* The records of the small wallets: transaction 1 is received (first seen in
\* the pool, then confirmed in block 40), transaction 2 is a miner reward of
\* block 150, transactions 3 and 4 are sent.
I1 == Payment(ShortPaymentId, 1, U64(5), U64(40), 0, "in")
I2 == Payment(null_hash, 2, U64(7), U64(150), 1, "miner")
O1 == ConfirmedOut(3, null_hash, U64(110), U64(100), UINT64_MAX, U64(40), {0},
                   "out", << Dest(U64(60), "A"), Dest(U64(40), "B") >>)
U1 == UnconfirmedOut(4, LongPaymentId, U64(110), U64(100), U64(0), "pending",
                     {0, 1}, "out")
P1 == PoolPayment(ShortPaymentId, 1, U64(5), U64(0), 0, "in")

\* The wallet of the concurrent specification over time: empty; then with two
\* pending records; then with records in all four sources (the pool view and
\* the confirmed view of transaction 1 coexisting).
WalletStages ==
    << Wallet(U64(100), << >>, << >>, << >>, << >>),
       Wallet(U64(100), << >>, << >>, << U1 >>, << P1 >>),
       Wallet(U64(100), << I1, I2 >>, << O1 >>, << U1 >>, << P1 >>) >>

SmallLedgers == { WalletStages[k] : k \in 1..Len(WalletStages) }

\* The values the fields of a single record are drawn from.
Amounts == { U64(0), U64(100), U64(110), U64(LimbBase) }
Changes == { U64(0), U64(10), U64(200), UINT64_MAX }
BlockHeights == { U64(40), U64(100), U64(150) }
WalletHeights == { U64(100), U64(LimbBase + 64) }
PaymentIds == { null_hash, ShortPaymentId, LongPaymentId,
                HashWithByte(9, 1), HashWithByte(9, 16), HashWithByte(HASH_SIZE, 1) }
IndexSets == { {}, {1}, {0, 1} }
DestLists == { << >>, << Dest(U64(100), "A") >>,
               << Dest(U64(60), "A"), Dest(U64(40), "B") >> }

RichPayments ==
    { Payment(ShortPaymentId, 1, U64(5), h, 0, ty) : h \in BlockHeights, ty \in PayTypes }
    \cup { Payment(pid, 1, U64(5), U64(40), 1, "in") : pid \in PaymentIds }

RichConfirmedOut ==
    { ConfirmedOut(3, null_hash, ain, aout, ch, U64(40), {0}, "out", << >>) :
        ain \in Amounts, aout \in Amounts, ch \in Changes }
    \cup { ConfirmedOut(3, pid, U64(110), U64(100), U64(0), U64(40), ix, ty, ds) :
             pid \in { null_hash, LongPaymentId },
             ix \in IndexSets, ty \in { "out", "stake" }, ds \in DestLists }
    \cup { ConfirmedOut(3, null_hash, U64(110), U64(100), U64(0), h, {0}, "out",
                         << >>) : h \in BlockHeights }
    \cup { ConfirmedOut(3, pid, U64(110), U64(100), U64(0), U64(40), {0}, "out",
                         << >>) : pid \in PaymentIds }

RichUnconfirmedOut ==
    { UnconfirmedOut(4, null_hash, ain, aout, ch, "pending", {0}, "out") :
        ain \in Amounts, aout \in Amounts, ch \in Changes }
    \cup { UnconfirmedOut(4, pid, U64(110), U64(100), U64(0), st, ix, ty) :
             pid \in PaymentIds, st \in { "pending", "failed", "pending_in_pool" },
             ix \in IndexSets, ty \in { "out", "stake" } }

RichPoolPayments ==
    { PoolPayment(ShortPaymentId, 1, U64(5), h, 0, ty) :
        h \in { U64(0), U64(40) }, ty \in PayTypes }
    \cup { PoolPayment(pid, 1, U64(5), U64(0), 1, "in") : pid \in PaymentIds }

\* The wallets of the sequential specification: one record, of any kind,
\* with its fields drawn from the sets above.  The records that carry a block
\* height are met at both chain heights.
RichLedgers ==
    UNION { { Wallet(h, << r >>, << >>, << >>, << >>) : r \in RichPayments }
            \cup { Wallet(h, << >>, << r >>, << >>, << >>) : r \in RichConfirmedOut }
            \cup { Wallet(h, << >>, << >>, << >>, << r >>) : r \in RichPoolPayments }
            : h \in WalletHeights }
    \cup { Wallet(U64(100), << >>, << >>, << r >>, << >>) : r \in RichUnconfirmedOut }

-----------------------------------------------------------------------------
(* The store and the threads calling into it.                              *)

\* The number of threads calling into the store.
NumThreads == 2

\* The number of refresh() calls a behaviour makes.
MaxRefresh == 2

\* The largest index a caller passes to transaction(int).
MaxIndex == 1

Threads == 1..NumThreads
NoThread == 0

\* nullptr; every other pointer is an index into heap.
NULL == 0

VARIABLES
    ledger,          \* the wallet's contents (height and the four sources)
    m_history,       \* std::vector<TransactionInfo*>: a sequence of pointers
    heap,            \* the TransactionInfoImpl objects ever allocated with new
    m_historyMutex,  \* std::shared_mutex: the exclusive owner and the shared owners
    callers,         \* the threads that call into the store; none once it is
                     \* destroyed
    pc,              \* where each thread is: idle, or inside one of the calls
    frame,           \* the arguments and locals of each thread's current call
    ret,             \* what each thread's last call returned, and what the caller
                     \* read through the pointers at that moment; the caller keeps
                     \* it until its next call
    nrefresh,        \* the number of refresh() calls started
    last_ok          \* the last complete generation: the initial empty one, or what
                     \* the last refresh() that returned normally queried and built

vars == << ledger, m_history, heap, m_historyMutex, callers, pc, frame, ret,
           nrefresh, last_ok >>

\* A deleted object: its storage is gone.  deletes counts the delete
\* expressions applied to the pointer.
Freed == [ alive |-> FALSE, obj |-> "freed", deletes |-> 1 ]

\* new TransactionInfoImpl, filled as obj: the heap with the object added.
new_info(hp, obj) == Append(hp, [ alive |-> TRUE, obj |-> obj, deletes |-> 0 ])

\* delete t, for every t of vec.
delete_all(hp, vec) ==
    [ p \in 1..Len(hp) |->
        LET n == Cardinality({ k \in 1..Len(vec) : vec[k] = p })
        IN  IF n > 0 THEN [ Freed EXCEPT !.deletes = hp[p].deletes + n ]
                     ELSE hp[p] ]

\* A variant that inserts at the front.
push_front(vec, x) == << x >> \o vec

\* std::vector::push_back
push_back(vec, x) == Append(vec, x)

\* std::vector::clear
clear(vec) == << >>

\* What a caller reads through the pointers of vec.
Deref(hp, vec) == [ k \in 1..Len(vec) |-> hp[vec[k]].obj ]

\* The records the store shows: count() and getAll() read this.
Visible == Deref(heap, m_history)

NoFrame == [ op |-> "none" ]
NoRet == [ op |-> "none", value |-> "none", ptrs |-> << >>, seen |-> << >> ]

ReaderPcs == { "count", "transaction_int", "transaction_id", "getAll" }
RefreshPcs == { "r_height", "r_clear", "r_get_payments", "r_loop1", "r_loop2",
                "r_loop3", "r_loop4", "r_unwind" }

Init ==
    /\ ledger \in SmallLedgers
    /\ m_history = << >>
    /\ heap = << >>
    /\ m_historyMutex = [ writer |-> NoThread, readers |-> {} ]
    /\ callers = Threads
    /\ pc = [ t \in Threads |-> "idle" ]
    /\ frame = [ t \in Threads |-> NoFrame ]
    /\ ret = [ t \in Threads |-> NoRet ]
    /\ nrefresh = 0
    /\ last_ok = [ initial |-> TRUE, queries |-> << >>, wallet_height |-> U64(0),
                   records |-> << >> ]

\* The wallet changes under the store, at any moment: transactions are sent,
\* received and confirmed.
LedgerChange ==
    /\ \E k \in 1..(Len(WalletStages) - 1) :
          ledger = WalletStages[k] /\ ledger' = WalletStages[k + 1]
    /\ UNCHANGED << m_history, heap, m_historyMutex, callers, pc, frame, ret,
                    nrefresh, last_ok >>

-----------------------------------------------------------------------------
(* The readers: std::shared_lock lock{m_historyMutex}; then the body; the  *)
(* lock is released on return.                                             *)

\* A variant that takes the mutex for itself: it waits for the readers too.
lock_shared_alone(t, op, arg) ==
    /\ t \in callers
    /\ pc[t] = "idle"
    /\ m_historyMutex.writer = NoThread
    /\ m_historyMutex.readers = {}
    /\ m_historyMutex' = [ m_historyMutex EXCEPT !.readers = @ \cup { t } ]
    /\ pc' = [ pc EXCEPT ![t] = op ]
    /\ frame' = [ frame EXCEPT ![t] = [ op |-> op, arg |-> arg ] ]
    /\ ret' = [ ret EXCEPT ![t] = NoRet ]
    /\ UNCHANGED << ledger, m_history, heap, callers, nrefresh, last_ok >>

\* std::shared_lock: waits while a writer owns the mutex.
lock_shared(t, op, arg) ==
    /\ t \in callers
    /\ pc[t] = "idle"
    /\ m_historyMutex.writer = NoThread
    /\ m_historyMutex' = [ m_historyMutex EXCEPT !.readers = @ \cup { t } ]
    /\ pc' = [ pc EXCEPT ![t] = op ]
    /\ frame' = [ frame EXCEPT ![t] = [ op |-> op, arg |-> arg ] ]
    /\ ret' = [ ret EXCEPT ![t] = NoRet ]
    /\ UNCHANGED << ledger, m_history, heap, callers, nrefresh, last_ok >>

\* The return of a reader: the shared lock is released, the caller has the value.
return_shared(t, value, ptrs) ==
    /\ m_historyMutex' = [ m_historyMutex EXCEPT !.readers = @ \ { t } ]
    /\ ret' = [ ret EXCEPT ![t] = [ op |-> pc[t], value |-> value, ptrs |-> ptrs,
                                    seen |-> Deref(heap, ptrs) ] ]
    /\ pc' = [ pc EXCEPT ![t] = "idle" ]
    /\ frame' = [ frame EXCEPT ![t] = NoFrame ]
    /\ UNCHANGED << ledger, m_history, heap, callers, nrefresh, last_ok >>

\* int result = m_history.size();
count_of(vec) == Len(vec)

\* A variant whose bound is off by one: the last index is out of range.
transaction_at_short(vec, index) ==
    IF index < 0
    THEN NULL
    ELSE IF index < Len(vec) - 1 THEN vec[index + 1] ELSE NULL

\* transaction(int index): nullptr for a negative index; the unsigned cast keeps
\* the value of a non-negative int.
transaction_at(vec, index) ==
    IF index < 0
    THEN NULL
    ELSE LET index_ == index
         IN  IF index_ < Len(vec) THEN vec[index_ + 1] ELSE NULL

\* std::find_if from position k (1-based) on: the position of the first object
\* whose hash() equals id, or Len(vec) + 1 (end()).
RECURSIVE find_if(_, _, _, _)
find_if(hp, vec, k, id) ==
    IF k > Len(vec) THEN Len(vec) + 1
    ELSE IF hp[vec[k]].obj.m_hash = id THEN k
    ELSE find_if(hp, vec, k + 1, id)

\* A variant that searches from the back: the last object with that hash.
transaction_by_id_last(hp, vec, id) ==
    LET M == { k \in 1..Len(vec) : hp[vec[k]].obj.m_hash = id }
    IN  IF M = {} THEN NULL ELSE vec[CHOOSE k \in M : \A j \in M : j <= k]

\* transaction(std::string_view id)
transaction_by_id(hp, vec, id) ==
    LET itr == find_if(hp, vec, 1, id)
    IN  IF itr # Len(vec) + 1 THEN vec[itr] ELSE NULL

\* getAll(): a copy of the vector of pointers.
getAll_of(vec) == vec

\* The arguments the callers pass.
IndexInputs == -1..MaxIndex
IdInputs == { type_to_hex(HashOf(b)) : b \in { 1, 9 } }

CallCount(t) == lock_shared(t, "count", "none")

Count(t) ==
    /\ pc[t] = "count"
    /\ return_shared(t, count_of(m_history), << >>)

CallTransactionInt(t) ==
    \E index \in IndexInputs : lock_shared(t, "transaction_int", index)

TransactionInt(t) ==
    /\ pc[t] = "transaction_int"
    /\ LET p == transaction_at(m_history, frame[t].arg)
       IN  return_shared(t, p, IF p = NULL THEN << >> ELSE << p >>)

CallTransactionId(t) ==
    \E id \in IdInputs : lock_shared(t, "transaction_id", id)

TransactionId(t) ==
    /\ pc[t] = "transaction_id"
    /\ LET p == transaction_by_id(heap, m_history, frame[t].arg)
       IN  return_shared(t, p, IF p = NULL THEN << >> ELSE << p >>)

CallGetAll(t) == lock_shared(t, "getAll", "none")

GetAll(t) ==
    /\ pc[t] = "getAll"
    /\ return_shared(t, getAll_of(m_history), getAll_of(m_history))

-----------------------------------------------------------------------------
(* refresh(): std::unique_lock lock{m_historyMutex}; the height query; the *)
(* deletion of the old objects; then four queries, each followed by a loop *)
(* that allocates, fills and appends one object per record.  Every call    *)
(* into the wallet may throw: the exception leaves refresh() at once, and  *)
(* the lock is released while it unwinds.                                  *)

\* The locals of refresh().
RefreshFrame(before) ==
    [ op            |-> "refresh",
      wallet_height |-> U64(0),
      in_payments   |-> << >>,
      out_payments  |-> << >>,
      upayments_out |-> << >>,
      upayments     |-> << >>,
      i             |-> 0,
      before        |-> before ]

\* A variant that does not wait for the readers to leave.
RefreshLock_over_readers(t) ==
    /\ t \in callers
    /\ pc[t] = "idle"
    /\ nrefresh < MaxRefresh
    /\ m_historyMutex.writer = NoThread
    /\ m_historyMutex' = [ m_historyMutex EXCEPT !.writer = t ]
    /\ pc' = [ pc EXCEPT ![t] = "r_height" ]
    /\ frame' = [ frame EXCEPT ![t] = RefreshFrame(Visible) ]
    /\ nrefresh' = nrefresh + 1
    /\ ret' = [ ret EXCEPT ![t] = NoRet ]
    /\ UNCHANGED << ledger, m_history, heap, callers, last_ok >>

\* std::unique_lock: waits while any other thread owns the mutex.  The frame
\* keeps what the store showed immediately before the call.
RefreshLock(t) ==
    /\ t \in callers
    /\ pc[t] = "idle"
    /\ nrefresh < MaxRefresh
    /\ m_historyMutex.writer = NoThread
    /\ m_historyMutex.readers = {}
    /\ m_historyMutex' = [ m_historyMutex EXCEPT !.writer = t ]
    /\ pc' = [ pc EXCEPT ![t] = "r_height" ]
    /\ frame' = [ frame EXCEPT ![t] = RefreshFrame(Visible) ]
    /\ nrefresh' = nrefresh + 1
    /\ ret' = [ ret EXCEPT ![t] = NoRet ]
    /\ UNCHANGED << ledger, m_history, heap, callers, last_ok >>

\* uint64_t wallet_height = m_wallet->blockChainHeight();
BlockChainHeight(t) ==
    /\ pc[t] = "r_height"
    /\ frame' = [ frame EXCEPT ![t].wallet_height = ledger.height ]
    /\ pc' = [ pc EXCEPT ![t] = "r_clear" ]
    /\ UNCHANGED << ledger, m_history, heap, m_historyMutex, callers, ret,
                    nrefresh, last_ok >>

\* A variant without the deletion of the old objects: refresh() goes on to
\* its queries with m_history as it was.
DeleteOld_skipped(t) ==
    /\ pc[t] = "r_clear"
    /\ pc' = [ pc EXCEPT ![t] = "r_get_payments" ]
    /\ UNCHANGED << ledger, m_history, heap, m_historyMutex, callers, frame, ret,
                    nrefresh, last_ok >>

\* for (auto t : m_history) delete t;  m_history.clear();
DeleteOld(t) ==
    /\ pc[t] = "r_clear"
    /\ heap' = delete_all(heap, m_history)
    /\ m_history' = clear(m_history)
    /\ pc' = [ pc EXCEPT ![t] = "r_get_payments" ]
    /\ UNCHANGED << ledger, m_historyMutex, callers, frame, ret, nrefresh, last_ok >>

\* w->get_payments(in_payments, min_height, max_height);
GetPayments(t) ==
    /\ pc[t] = "r_get_payments"
    /\ frame' = [ frame EXCEPT ![t].in_payments = ledger.payments, ![t].i = 1 ]
    /\ pc' = [ pc EXCEPT ![t] = "r_loop1" ]
    /\ UNCHANGED << ledger, m_history, heap, m_historyMutex, callers, ret,
                    nrefresh, last_ok >>

\* One pass of a loop body: ti = new TransactionInfoImpl(), filled as obj, then
\* m_history.push_back(ti).
append_info(t, obj) ==
    /\ heap' = new_info(heap, obj)
    /\ m_history' = push_back(m_history, Len(heap) + 1)
    /\ frame' = [ frame EXCEPT ![t].i = @ + 1 ]
    /\ UNCHANGED << ledger, m_historyMutex, callers, pc, ret, nrefresh, last_ok >>

\* The next query: the list it fills, and the loop over it begins.
next_query(t, loop) ==
    /\ pc' = [ pc EXCEPT ![t] = loop ]
    /\ UNCHANGED << ledger, m_history, heap, m_historyMutex, callers, ret,
                    nrefresh, last_ok >>

Loop1(t) ==
    /\ pc[t] = "r_loop1"
    /\ frame[t].i <= Len(frame[t].in_payments)
    /\ append_info(t, info_payment(frame[t].in_payments[frame[t].i],
                                   frame[t].wallet_height))

\* w->get_payments_out(out_payments, min_height, max_height);
GetPaymentsOut(t) ==
    /\ pc[t] = "r_loop1"
    /\ frame[t].i > Len(frame[t].in_payments)
    /\ frame' = [ frame EXCEPT ![t].out_payments = ledger.payments_out, ![t].i = 1 ]
    /\ next_query(t, "r_loop2")

Loop2(t) ==
    /\ pc[t] = "r_loop2"
    /\ frame[t].i <= Len(frame[t].out_payments)
    /\ append_info(t, info_payment_out(frame[t].out_payments[frame[t].i],
                                       frame[t].wallet_height))

\* w->get_unconfirmed_payments_out(upayments_out);
GetUnconfirmedPaymentsOut(t) ==
    /\ pc[t] = "r_loop2"
    /\ frame[t].i > Len(frame[t].out_payments)
    /\ frame' = [ frame EXCEPT ![t].upayments_out = ledger.unconfirmed_payments_out,
                               ![t].i = 1 ]
    /\ next_query(t, "r_loop3")

Loop3(t) ==
    /\ pc[t] = "r_loop3"
    /\ frame[t].i <= Len(frame[t].upayments_out)
    /\ append_info(t, info_unconfirmed_out(frame[t].upayments_out[frame[t].i],
                                           frame[t].wallet_height))

\* w->get_unconfirmed_payments(upayments);
GetUnconfirmedPayments(t) ==
    /\ pc[t] = "r_loop3"
    /\ frame[t].i > Len(frame[t].upayments_out)
    /\ frame' = [ frame EXCEPT ![t].upayments = ledger.unconfirmed_payments,
                               ![t].i = 1 ]
    /\ next_query(t, "r_loop4")

Loop4(t) ==
    /\ pc[t] = "r_loop4"
    /\ frame[t].i <= Len(frame[t].upayments)
    /\ append_info(t, info_unconfirmed_payment(frame[t].upayments[frame[t].i],
                                               frame[t].wallet_height))

\* refresh() has run to its end: the four lists are queried and looped over.
RefreshComplete(t) ==
    /\ pc[t] = "r_loop4"
    /\ frame[t].i > Len(frame[t].upayments)

\* The return of refresh(): the exclusive lock is released.
RefreshReturn(t) ==
    /\ RefreshComplete(t)
    /\ m_historyMutex' = [ m_historyMutex EXCEPT !.writer = NoThread ]
    /\ ret' = [ ret EXCEPT ![t] = [ op |-> "refresh", value |-> "ok",
                                    ptrs |-> << >>, seen |-> << >> ] ]
    /\ last_ok' = [ initial       |-> FALSE,
                    queries       |-> << frame[t].in_payments, frame[t].out_payments,
                                         frame[t].upayments_out, frame[t].upayments >>,
                    wallet_height |-> frame[t].wallet_height,
                    records       |-> Visible ]
    /\ pc' = [ pc EXCEPT ![t] = "idle" ]
    /\ frame' = [ frame EXCEPT ![t] = NoFrame ]
    /\ UNCHANGED << ledger, m_history, heap, callers, nrefresh >>

\* An exception leaves the body.
throw(t) == pc' = [ pc EXCEPT ![t] = "r_unwind" ]

\* m_wallet->blockChainHeight() throws.
ThrowHeight(t) ==
    /\ pc[t] = "r_height"
    /\ throw(t)
    /\ UNCHANGED << ledger, m_history, heap, m_historyMutex, callers, frame, ret,
                    nrefresh, last_ok >>

\* Whether refresh() is about to make one of its four queries.
AtQuery(t) ==
    \/ pc[t] = "r_get_payments"
    \/ pc[t] = "r_loop1" /\ frame[t].i > Len(frame[t].in_payments)
    \/ pc[t] = "r_loop2" /\ frame[t].i > Len(frame[t].out_payments)
    \/ pc[t] = "r_loop3" /\ frame[t].i > Len(frame[t].upayments_out)

\* One of the four queries throws.
ThrowQuery(t) ==
    /\ AtQuery(t)
    /\ throw(t)
    /\ UNCHANGED << ledger, m_history, heap, m_historyMutex, callers, frame, ret,
                    nrefresh, last_ok >>

\* The object a loop body holds when w->get_subaddress_label is called: the
\* fields assigned after the call still have their defaults.
before_label(obj) ==
    [ obj EXCEPT !.m_label         = TransactionInfoImpl.m_label,
                 !.m_timestamp     = TransactionInfoImpl.m_timestamp,
                 !.m_confirmations = TransactionInfoImpl.m_confirmations,
                 !.m_unlock_time   = TransactionInfoImpl.m_unlock_time,
                 !.m_reward_type   = TransactionInfoImpl.m_reward_type,
                 !.m_is_stake      = TransactionInfoImpl.m_is_stake,
                 !.m_transfers     = TransactionInfoImpl.m_transfers ]

\* The object the current loop body would append.
current_info(t) ==
    CASE pc[t] = "r_loop1" ->
            info_payment(frame[t].in_payments[frame[t].i], frame[t].wallet_height)
      [] pc[t] = "r_loop2" ->
            info_payment_out(frame[t].out_payments[frame[t].i], frame[t].wallet_height)
      [] pc[t] = "r_loop3" ->
            info_unconfirmed_out(frame[t].upayments_out[frame[t].i],
                                 frame[t].wallet_height)
      [] pc[t] = "r_loop4" ->
            info_unconfirmed_payment(frame[t].upayments[frame[t].i],
                                     frame[t].wallet_height)

\* Whether the current loop body calls w->get_subaddress_label.
AtLabel(t) ==
    \/ pc[t] = "r_loop1" /\ frame[t].i <= Len(frame[t].in_payments)
    \/ pc[t] = "r_loop2" /\ frame[t].i <= Len(frame[t].out_payments)
         /\ calls_label(frame[t].out_payments[frame[t].i].second.m_subaddr_indices)
    \/ pc[t] = "r_loop3" /\ frame[t].i <= Len(frame[t].upayments_out)
         /\ calls_label(frame[t].upayments_out[frame[t].i].second.m_subaddr_indices)
    \/ pc[t] = "r_loop4" /\ frame[t].i <= Len(frame[t].upayments)

\* w->get_subaddress_label throws: ti is allocated and not yet appended.
ThrowLabel(t) ==
    /\ AtLabel(t)
    /\ heap' = new_info(heap, before_label(current_info(t)))
    /\ throw(t)
    /\ UNCHANGED << ledger, m_history, m_historyMutex, callers, frame, ret,
                    nrefresh, last_ok >>

\* w->nettype() or d.address() throws for destination k of a confirmed outgoing
\* transfer: ti is allocated, holds the transfers before k, and is not appended.
ThrowAddress(t) ==
    /\ pc[t] = "r_loop2"
    /\ frame[t].i <= Len(frame[t].out_payments)
    /\ \E k \in 1..Len(frame[t].out_payments[frame[t].i].second.m_dests) :
          heap' = new_info(heap, [ current_info(t) EXCEPT
                                     !.m_transfers = SubSeq(@, 1, k - 1) ])
    /\ throw(t)
    /\ UNCHANGED << ledger, m_history, m_historyMutex, callers, frame, ret,
                    nrefresh, last_ok >>

\* A variant with the mutex locked by hand (m_historyMutex.lock() and an
\* unlock() before the return): the exception leaves it locked.
RefreshUnwind_locked(t) ==
    /\ pc[t] = "r_unwind"
    /\ ret' = [ ret EXCEPT ![t] = [ op |-> "refresh", value |-> "failed",
                                    ptrs |-> << >>, seen |-> << >> ] ]
    /\ pc' = [ pc EXCEPT ![t] = "idle" ]
    /\ frame' = [ frame EXCEPT ![t] = NoFrame ]
    /\ UNCHANGED << ledger, m_history, heap, m_historyMutex, callers, nrefresh,
                    last_ok >>

\* The exception reaches the caller: the exclusive lock is released on the way.
RefreshUnwind(t) ==
    /\ pc[t] = "r_unwind"
    /\ m_historyMutex' = [ m_historyMutex EXCEPT !.writer = NoThread ]
    /\ ret' = [ ret EXCEPT ![t] = [ op |-> "refresh", value |-> "failed",
                                    ptrs |-> << >>, seen |-> << >> ] ]
    /\ pc' = [ pc EXCEPT ![t] = "idle" ]
    /\ frame' = [ frame EXCEPT ![t] = NoFrame ]
    /\ UNCHANGED << ledger, m_history, heap, callers, nrefresh, last_ok >>

-----------------------------------------------------------------------------
(* ~TransactionHistoryImpl(): for (auto t : m_history) delete t;  The      *)
(* vector itself goes with the object.  The owner destroys the store when  *)
(* no call is in progress; no thread calls into it afterwards.             *)

Destructor ==
    /\ callers # {}
    /\ \A t \in Threads : pc[t] = "idle"
    /\ heap' = delete_all(heap, m_history)
    /\ m_history' = << >>
    /\ callers' = {}
    /\ UNCHANGED << ledger, m_historyMutex, pc, frame, ret, nrefresh, last_ok >>

-----------------------------------------------------------------------------
(* The specifications.                                                     *)

ThreadStep(t) ==
    \/ CallCount(t) \/ Count(t)
    \/ CallTransactionInt(t) \/ TransactionInt(t)
    \/ CallTransactionId(t) \/ TransactionId(t)
    \/ CallGetAll(t) \/ GetAll(t)
    \/ RefreshLock(t) \/ BlockChainHeight(t) \/ DeleteOld(t)
    \/ GetPayments(t) \/ Loop1(t)
    \/ GetPaymentsOut(t) \/ Loop2(t)
    \/ GetUnconfirmedPaymentsOut(t) \/ Loop3(t)
    \/ GetUnconfirmedPayments(t) \/ Loop4(t)
    \/ RefreshReturn(t)
    \/ ThrowHeight(t) \/ ThrowQuery(t) \/ ThrowLabel(t) \/ ThrowAddress(t)
    \/ RefreshUnwind(t)

Next == LedgerChange \/ Destructor \/ \E t \in Threads : ThreadStep(t)

\* Several threads against the wallet that changes.
Spec == Init /\ [][Next]_vars

\* One thread against a wallet that holds one record of any kind, or against
\* the wallet that changes.
InitSeq ==
    /\ ledger \in RichLedgers \cup SmallLedgers
    /\ m_history = << >>
    /\ heap = << >>
    /\ m_historyMutex = [ writer |-> NoThread, readers |-> {} ]
    /\ callers = { 1 }
    /\ pc = [ t \in Threads |-> "idle" ]
    /\ frame = [ t \in Threads |-> NoFrame ]
    /\ ret = [ t \in Threads |-> NoRet ]
    /\ nrefresh = 0
    /\ last_ok = [ initial |-> TRUE, queries |-> << >>, wallet_height |-> U64(0),
                   records |-> << >> ]

SpecSeq == InitSeq /\ [][Next]_vars

\* The steps of refresh() between taking the lock and giving it back.
RefreshStep(t) ==
    \/ BlockChainHeight(t) \/ DeleteOld(t)
    \/ GetPayments(t) \/ Loop1(t)
    \/ GetPaymentsOut(t) \/ Loop2(t)
    \/ GetUnconfirmedPaymentsOut(t) \/ Loop3(t)
    \/ GetUnconfirmedPayments(t) \/ Loop4(t)
    \/ RefreshReturn(t)
    \/ ThrowHeight(t) \/ ThrowQuery(t) \/ ThrowLabel(t) \/ ThrowAddress(t)
    \/ RefreshUnwind(t)

\* Several threads against a wallet that holds one confirmed outgoing
\* transfer, or one thread against the wallet that changes.
InitLive ==
    /\ \/ /\ ledger = Wallet(U64(100), << >>, << O1 >>, << >>, << >>)
          /\ callers = Threads
       \/ /\ ledger \in SmallLedgers
          /\ callers = { 1 }
    /\ m_history = << >>
    /\ heap = << >>
    /\ m_historyMutex = [ writer |-> NoThread, readers |-> {} ]
    /\ pc = [ t \in Threads |-> "idle" ]
    /\ frame = [ t \in Threads |-> NoFrame ]
    /\ ret = [ t \in Threads |-> NoRet ]
    /\ nrefresh = 0
    /\ last_ok = [ initial |-> TRUE, queries |-> << >>, wallet_height |-> U64(0),
                   records |-> << >> ]

\* The same steps under a fair scheduler: a thread that is inside refresh() is
\* scheduled again and again.  The body has no wait of its own, and every
\* wallet call returns or throws.
SpecLive == InitLive /\ [][Next]_vars /\ \A t \in Threads : WF_vars(RefreshStep(t))

-----------------------------------------------------------------------------
(* Properties.                                                             *)

\* a + b on uint64_t: limb-wise with carry, the final carry dropped.
Add64(a, b) ==
    LET s1 == a[1] + b[1]
        s2 == a[2] + b[2] + (s1 \div LimbBase)
        s3 == a[3] + b[3] + (s2 \div LimbBase)
        s4 == a[4] + b[4] + (s3 \div LimbBase)
    IN  << s1 % LimbBase, s2 % LimbBase, s3 % LimbBase, s4 % LimbBase >>

\* The four lists a refresh() call has queried.
Queries(t) ==
    << frame[t].in_payments, frame[t].out_payments, frame[t].upayments_out,
       frame[t].upayments >>

\* The records a completed refresh() built from its 2nd, 3rd and 4th list
\* start after these many records.
Offset2(t) == Len(frame[t].in_payments)
Offset3(t) == Offset2(t) + Len(frame[t].out_payments)
Offset4(t) == Offset3(t) + Len(frame[t].upayments_out)

\* C1: a refresh() that fails (the exception is on its way to the caller) has
\* left what the store shows exactly as it was immediately before the call.
C1_FailedRefreshKeepsSnapshot ==
    \A t \in Threads : pc[t] = "r_unwind" => Visible = frame[t].before

\* C2: whenever a reader is inside its critical section, what the store shows
\* is one complete generation: the initial empty one, or all that the last
\* refresh() that returned normally built.
C2_ReadersSeeOneGeneration ==
    \A t \in Threads : pc[t] \in ReaderPcs => Visible = last_ok.records

\* C3: every record handed to a caller stays valid and keeps its contents,
\* whatever refresh() calls come later.
C3_HandedRecordsStayValid ==
    \A t \in Threads :
        \A k \in 1..Len(ret[t].ptrs) :
            /\ heap[ret[t].ptrs[k]].alive
            /\ heap[ret[t].ptrs[k]].obj = ret[t].seen[k]

\* C4: when refresh() has run to its end, the store holds exactly the records
\* of the four lists it queried: as many as the lists hold together, in the
\* order list 1, 2, 3, 4, each list in its own order, each record normalised
\* with the height of this call.
C4_RefreshConcatenates ==
    \A t \in Threads :
        RefreshComplete(t) =>
            LET S1 == frame[t].in_payments
                S2 == frame[t].out_payments
                S3 == frame[t].upayments_out
                S4 == frame[t].upayments
                h  == frame[t].wallet_height
            IN  /\ count_of(m_history) = Len(S1) + Len(S2) + Len(S3) + Len(S4)
                /\ Deref(heap, getAll_of(m_history)) =
                       [ k \in 1..Len(S1) |-> info_payment(S1[k], h) ]
                       \o [ k \in 1..Len(S2) |-> info_payment_out(S2[k], h) ]
                       \o [ k \in 1..Len(S3) |-> info_unconfirmed_out(S3[k], h) ]
                       \o [ k \in 1..Len(S4) |-> info_unconfirmed_payment(S4[k], h) ]
                /\ \A k \in 1..Len(m_history) : heap[m_history[k]].alive
                /\ \A j, k \in 1..Len(m_history) :
                       j # k => m_history[j] # m_history[k]

\* C4's case: a refresh() has run to its end over four non-empty lists, one of
\* them with two records, in a store that showed records before the call.
C4_Witness ==
    \E t \in Threads :
        /\ RefreshComplete(t)
        /\ Len(frame[t].in_payments) = 2
        /\ Len(frame[t].out_payments) = 1
        /\ Len(frame[t].upayments_out) = 1
        /\ Len(frame[t].upayments) = 1
        /\ Len(frame[t].before) > 0
        /\ Len(m_history) = 5

\* The indexes transaction(int) is checked for.
CheckedIndexes == (-3..7) \cup { -2147483647, 2147483647 }

\* C5: with no refresh() in progress, transaction(i) is nullptr for i < 0 and
\* for i >= count(), and the i-th element of getAll() otherwise.
C5_TransactionAtIndex ==
    m_historyMutex.writer = NoThread =>
        \A i \in CheckedIndexes :
            transaction_at(m_history, i) =
                IF i < 0 \/ i >= count_of(m_history)
                THEN NULL
                ELSE getAll_of(m_history)[i + 1]

\* C5's case: a caller got the record at the last index of a store holding
\* several records.
C5_Witness ==
    \E t \in Threads :
        /\ ret[t].op = "transaction_int"
        /\ Len(ret[t].ptrs) = 1
        /\ Len(m_history) > 1
        /\ ret[t].ptrs[1] = m_history[Len(m_history)]

\* The ids transaction(id) is checked for: the hashes of transactions 0..9.
CheckedIds == { type_to_hex(HashOf(b)) : b \in 0..9 }

\* C6: with no refresh() in progress, transaction(id) is nullptr iff no record
\* of the store has that hash, and otherwise the record at the smallest
\* position among those with that hash.
C6_TransactionByHash ==
    m_historyMutex.writer = NoThread =>
        \A id \in CheckedIds :
            LET r == transaction_by_id(heap, m_history, id)
                M == { k \in 1..Len(m_history) : Visible[k].m_hash = id }
            IN  /\ (r = NULL) <=> (M = {})
                /\ M # {} =>
                     \E k \in M : r = m_history[k] /\ \A j \in M : k <= j

\* C6's case: a caller looked up a hash that two records of the store share,
\* and the store still holds those records.
C6_Witness ==
    \E t \in Threads :
        /\ ret[t].op = "transaction_id"
        /\ Len(ret[t].ptrs) = 1
        /\ \E j, k \in 1..Len(m_history) :
              /\ j < k
              /\ m_history[j] = ret[t].ptrs[1]
              /\ Visible[k].m_hash = ret[t].seen[1].m_hash

\* The hashes of a sequence of records, as a bag.
HashBag(records) ==
    LET H == { records[k].m_hash : k \in 1..Len(records) }
    IN  [ h \in H |-> Cardinality({ k \in 1..Len(records) : records[k].m_hash = h }) ]

\* C7: a refresh() that has run to its end after querying the same four lists
\* and the same height as the refresh() that last returned normally shows as
\* many records as that one did, with the same bag of hashes.
C7_RefreshIdempotent ==
    \A t \in Threads :
        ( /\ RefreshComplete(t)
          /\ ~ last_ok.initial
          /\ last_ok.queries = Queries(t)
          /\ last_ok.wallet_height = frame[t].wallet_height )
        => /\ Len(Visible) = Len(last_ok.records)
           /\ HashBag(Visible) = HashBag(last_ok.records)

\* C7's case: a second refresh() has run to its end over the same non-empty
\* lists as the one before it.
C7_Witness ==
    \E t \in Threads :
        /\ RefreshComplete(t)
        /\ ~ last_ok.initial
        /\ last_ok.queries = Queries(t)
        /\ last_ok.wallet_height = frame[t].wallet_height
        /\ Len(last_ok.records) > 1

\* C8: a confirmed outgoing record has change 0 for the all-ones sentinel and
\* the raw change otherwise, fee + amountOut = amountIn and
\* amount + change + fee = amountIn, modulo 2^64; amountIn 110, amountOut 100
\* and an unknown change give fee 10 and amount 100.
C8_ConfirmedOutAmounts ==
    \A t \in Threads :
        RefreshComplete(t) =>
            \A k \in 1..Len(frame[t].out_payments) :
                LET pd     == frame[t].out_payments[k].second
                    ti     == Visible[Offset2(t) + k]
                    change == IF pd.m_change = UINT64_MAX THEN U64(0) ELSE pd.m_change
                IN  /\ Add64(ti.m_fee, pd.m_amount_out) = pd.m_amount_in
                    /\ Add64(Add64(ti.m_amount, change), ti.m_fee) = pd.m_amount_in
                    /\ ( /\ pd.m_amount_in = U64(110)
                         /\ pd.m_amount_out = U64(100)
                         /\ pd.m_change = UINT64_MAX )
                       => ti.m_fee = U64(10) /\ ti.m_amount = U64(100)

\* C8's case: refresh() has normalised a confirmed outgoing transfer with
\* amountIn 110, amountOut 100 and an unknown change.
C8_Witness ==
    \E t \in Threads :
        /\ RefreshComplete(t)
        /\ Len(frame[t].out_payments) = 1
        /\ frame[t].out_payments[1].second.m_amount_in = U64(110)
        /\ frame[t].out_payments[1].second.m_amount_out = U64(100)
        /\ frame[t].out_payments[1].second.m_change = UINT64_MAX
        /\ Visible[Offset2(t) + 1].m_amount = U64(100)

\* C9: a pending outgoing record is normalised as a confirmed outgoing one is,
\* the change rule included (an all-ones raw change counts as 0), but for
\* confirmations 0, pending true and failed = (state is failed).
C9_PendingOutAsConfirmedOut ==
    \A t \in Threads :
        RefreshComplete(t) =>
            \A k \in 1..Len(frame[t].upayments_out) :
                LET pd     == frame[t].upayments_out[k].second
                    ti     == Visible[Offset3(t) + k]
                    change == IF pd.m_change = UINT64_MAX THEN U64(0) ELSE pd.m_change
                IN  /\ Add64(ti.m_fee, pd.m_amount_out) = pd.m_amount_in
                    /\ Add64(Add64(ti.m_amount, change), ti.m_fee) = pd.m_amount_in
                    /\ ti.m_confirmations = U64(0)
                    /\ ti.m_pending
                    /\ ti.m_failed = (pd.m_state = "failed")

\* C10: a confirmed record has confirmations = walletHeight - blockHeight when
\* the height of this refresh() is above the record's block height and 0
\* otherwise (100 and 40 give 60, 100 and 150 give 0); a pending record has 0.
C10_Confirmations ==
    \A t \in Threads :
        RefreshComplete(t) =>
            LET h == frame[t].wallet_height
                Confirmed(ti, bh) ==
                    /\ Gt64(h, bh) => Add64(ti.m_confirmations, bh) = h
                    /\ ~ Gt64(h, bh) => ti.m_confirmations = U64(0)
                    /\ (h = U64(100) /\ bh = U64(40)) => ti.m_confirmations = U64(60)
                    /\ (h = U64(100) /\ bh = U64(150)) => ti.m_confirmations = U64(0)
            IN  /\ \A k \in 1..Len(frame[t].in_payments) :
                       Confirmed(Visible[k], frame[t].in_payments[k].second.m_block_height)
                /\ \A k \in 1..Len(frame[t].out_payments) :
                       Confirmed(Visible[Offset2(t) + k],
                                 frame[t].out_payments[k].second.m_block_height)
                /\ \A k \in (Offset3(t) + 1)..Len(Visible) :
                       Visible[k].m_confirmations = U64(0)

\* C10's case: refresh() at height 100 has normalised a confirmed record of
\* block 150.
C10_Witness ==
    \E t \in Threads :
        /\ RefreshComplete(t)
        /\ frame[t].wallet_height = U64(100)
        /\ Len(frame[t].in_payments) = 1
        /\ frame[t].in_payments[1].second.m_block_height = U64(150)
        /\ Visible[1].m_confirmations = U64(0)

\* The raw payment id of each source record a refresh() call has queried, in
\* the order of the records it built: the key of an incoming entry, the
\* m_payment_id of an outgoing one.
RawPaymentIds(t) ==
    [ k \in 1..Len(frame[t].in_payments) |-> frame[t].in_payments[k].first ]
    \o [ k \in 1..Len(frame[t].out_payments) |->
           frame[t].out_payments[k].second.m_payment_id ]
    \o [ k \in 1..Len(frame[t].upayments_out) |->
           frame[t].upayments_out[k].second.m_payment_id ]
    \o [ k \in 1..Len(frame[t].upayments) |-> frame[t].upayments[k].first ]

\* C11: in all four branches the stored payment id is the first 16 characters
\* of the raw id's hexadecimal string when every character at (0-based) index
\* 16 or more is '0', and the whole string when one of them is not '0'.
C11_PaymentIdNormalized ==
    \A t \in Threads :
        RefreshComplete(t) =>
            /\ Len(Visible) = Len(RawPaymentIds(t))
            /\ \A k \in 1..Len(Visible) :
                  LET hex == type_to_hex(RawPaymentIds(t)[k])
                  IN  /\ Len(hex) = 2 * HASH_SIZE
                      /\ (\A c \in 17..Len(hex) : hex[c] = "0")
                            => Visible[k].m_paymentid = SubSeq(hex, 1, 16)
                      /\ (\E c \in 17..Len(hex) : hex[c] # "0")
                            => Visible[k].m_paymentid = hex

\* C11's case: refresh() has normalised a payment id whose only non-zero
\* character is the one at index 16, and kept all 64 characters.
C11_Witness ==
    \E t \in Threads :
        /\ RefreshComplete(t)
        /\ Len(frame[t].out_payments) = 1
        /\ frame[t].out_payments[1].second.m_payment_id = HashWithByte(9, 16)
        /\ Len(Visible[Offset2(t) + 1].m_paymentid) = 2 * HASH_SIZE
        /\ Visible[Offset2(t) + 1].m_paymentid[17] = "1"

\* One (amount, resolved address) entry per destination, in the source's order.
ResolvedTransfers(pd) ==
    [ k \in 1..Len(pd.m_dests) |->
        [ amount  |-> pd.m_dests[k].amount,
          address |-> address_of(pd.m_dests[k], nettype, pd.m_payment_id) ] ]

\* The records a completed refresh() built that are not confirmed outgoing.
NotConfirmedOut(t) ==
    { k \in 1..Len(Visible) : k <= Offset2(t) \/ k > Offset3(t) }

\* C12 as stated: transfers holds one (amount, resolved address) entry per
\* destination, in the source's order, for a confirmed outgoing record with two
\* destinations or more, and is empty for every other record: incoming,
\* pending, and confirmed outgoing with fewer than two destinations.
C12_TransfersOnlyForMultiple ==
    \A t \in Threads :
        RefreshComplete(t) =>
            /\ \A k \in 1..Len(frame[t].out_payments) :
                  LET pd == frame[t].out_payments[k].second
                      ti == Visible[Offset2(t) + k]
                  IN  IF Len(pd.m_dests) >= 2
                      THEN ti.m_transfers = ResolvedTransfers(pd)
                      ELSE ti.m_transfers = << >>
            /\ \A k \in NotConfirmedOut(t) : Visible[k].m_transfers = << >>

\* C12, amended: transfers holds one (amount, resolved address) entry per
\* destination, in the source's order, for every confirmed outgoing record (a
\* single destination gives a single entry), and is empty for every incoming
\* and every pending record.
C12_TransfersPerDestination ==
    \A t \in Threads :
        RefreshComplete(t) =>
            /\ \A k \in 1..Len(frame[t].out_payments) :
                  LET pd == frame[t].out_payments[k].second
                      ti == Visible[Offset2(t) + k]
                  IN  /\ Len(ti.m_transfers) = Len(pd.m_dests)
                      /\ ti.m_transfers = ResolvedTransfers(pd)
            /\ \A k \in NotConfirmedOut(t) : Visible[k].m_transfers = << >>

\* C12's case: refresh() has normalised a confirmed outgoing transfer with a
\* single destination, and the record holds one transfer.
C12_Witness ==
    \E t \in Threads :
        /\ RefreshComplete(t)
        /\ Len(frame[t].out_payments) = 1
        /\ Len(frame[t].out_payments[1].second.m_dests) = 1
        /\ Len(Visible[Offset2(t) + 1].m_transfers) = 1

\* How many elements of m_history are the pointer p.
Owned(p) == Cardinality({ k \in 1..Len(m_history) : m_history[k] = p })

\* C18: at every point outside a loop body, each object ever allocated either
\* is alive, never deleted, and an element of m_history exactly once, or is in
\* m_history no more and has been deleted exactly once; so after the destructor
\* every object has been deleted exactly once.  An exception between new and
\* push_back must not leave an object that nothing owns.
C18_NoLeakNoDoubleDelete ==
    /\ \A p \in 1..Len(heap) :
          \/ heap[p].alive /\ heap[p].deletes = 0 /\ Owned(p) = 1
          \/ ~ heap[p].alive /\ heap[p].deletes = 1 /\ Owned(p) = 0
    /\ callers = {} =>
          \A p \in 1..Len(heap) : ~ heap[p].alive /\ heap[p].deletes = 1

\* The threads inside the body of refresh(), and those inside a reader's
\* critical section.
InRefresh == { t \in Threads : pc[t] \in RefreshPcs }
InReader == { t \in Threads : pc[t] \in ReaderPcs }

\* C13: at most one thread is inside the body of refresh(), it is the one that
\* owns the mutex exclusively, and while it is there no thread is inside
\* count(), transaction() or getAll().
C13_RefreshExclusive ==
    /\ Cardinality(InRefresh) <= 1
    /\ \A t \in InRefresh :
          /\ m_historyMutex.writer = t
          /\ m_historyMutex.readers = {}
          /\ InReader = {}

\* C13's case: a thread is inside refresh(), refilling m_history, after another
\* thread has read the store and after another refresh() has run.
C13_Witness ==
    \E t \in Threads : \E u \in Threads \ { t } :
        /\ pc[t] = "r_loop4"
        /\ Len(m_history) > 0
        /\ nrefresh = 2
        /\ ret[u].op = "getAll"

\* C14: whenever no thread owns the mutex exclusively, every idle caller can
\* enter each of the readers, whichever threads are inside a reader already.
C14_ReadersDoNotBlock ==
    \A t \in callers :
        (pc[t] = "idle" /\ m_historyMutex.writer = NoThread) =>
            /\ ENABLED CallCount(t)
            /\ ENABLED CallTransactionInt(t)
            /\ ENABLED CallTransactionId(t)
            /\ ENABLED CallGetAll(t)

\* C14's case: a thread has entered a reader while another one was inside, and
\* both own the mutex in shared mode.
C14_Witness ==
    \E t \in Threads : \E u \in Threads \ { t } :
        /\ pc[t] \in ReaderPcs
        /\ pc[u] \in ReaderPcs
        /\ { t, u } \subseteq m_historyMutex.readers

\* C15: a thread that owns the mutex exclusively (it is inside refresh())
\* always comes to the end of the call: refresh() has returned or thrown, and
\* the mutex has no exclusive owner, so that the readers and the refresh()
\* calls waiting for it can go on.
C15_RefreshFinishes ==
    \A t \in Threads :
        (m_historyMutex.writer = t)
            ~> ( /\ m_historyMutex.writer = NoThread
                 /\ pc[t] = "idle"
                 /\ ret[t].op = "refresh"
                 /\ ret[t].value \in { "ok", "failed" } )

\* C15's case: a refresh() that failed has given the mutex back, and another
\* thread is inside a reader after it.
C15_Witness ==
    \E t \in Threads : \E u \in Threads \ { t } :
        /\ ret[t].op = "refresh"
        /\ ret[t].value = "failed"
        /\ pc[t] = "idle"
        /\ pc[u] \in ReaderPcs

\* The pay type and the record of each incoming payment a completed refresh()
\* has normalised: the confirmed ones, then those of the pool.
IncomingPairs(t) ==
    [ k \in 1..Len(frame[t].in_payments) |->
        [ ptype |-> frame[t].in_payments[k].second.m_type, ti |-> Visible[k] ] ]
    \o [ k \in 1..Len(frame[t].upayments) |->
           [ ptype |-> frame[t].upayments[k].second.m_pd.m_type,
             ti    |-> Visible[Offset4(t) + k] ] ]

\* C16: whatever its pay type, a record does not stop refresh(): the loop body
\* can append it, and the store of a refresh() that ran to its end holds one
\* record per source record; the reward type is the pay type for service_node
\* and miner and unspecified for every other value, and the stake flag is set
\* for the pay type stake only.
C16_UnexpectedPayType ==
    \A t \in Threads :
        /\ (pc[t] = "r_loop1" /\ frame[t].i <= Len(frame[t].in_payments))
              => ENABLED Loop1(t)
        /\ (pc[t] = "r_loop4" /\ frame[t].i <= Len(frame[t].upayments))
              => ENABLED Loop4(t)
        /\ RefreshComplete(t) =>
              /\ Len(Visible) = Len(frame[t].in_payments) + Len(frame[t].out_payments)
                                + Len(frame[t].upayments_out) + Len(frame[t].upayments)
              /\ \A k \in 1..Len(IncomingPairs(t)) :
                    LET e == IncomingPairs(t)[k]
                    IN  /\ e.ptype = "service_node" => e.ti.m_reward_type = "service_node"
                        /\ e.ptype = "miner" => e.ti.m_reward_type = "miner"
                        /\ e.ptype \notin { "service_node", "miner" }
                              => e.ti.m_reward_type = "unspecified"
                        /\ e.ti.m_is_stake = (e.ptype = "stake")
              /\ \A k \in 1..Len(frame[t].out_payments) :
                    Visible[Offset2(t) + k].m_is_stake
                        = (frame[t].out_payments[k].second.m_pay_type = "stake")
              /\ \A k \in 1..Len(frame[t].upayments_out) :
                    Visible[Offset3(t) + k].m_is_stake
                        = (frame[t].upayments_out[k].second.m_pay_type = "stake")

\* C16's case: refresh() has run to its end over a payment whose pay type is
\* none of the enumerators, and the store holds its record.
C16_Witness ==
    \E t \in Threads :
        /\ RefreshComplete(t)
        /\ Len(frame[t].in_payments) = 1
        /\ frame[t].in_payments[1].second.m_type = "invalid"
        /\ Len(Visible) = 1
        /\ Visible[1].m_reward_type = "unspecified"

\* C17: pending is set for the records of both pending sources and for no
\* confirmed record; failed is set for the pending outgoing records whose state
\* is failed and for no other record; the direction is In for both incoming
\* sources and Out for both outgoing ones.
C17_StatusFlags ==
    \A t \in Threads :
        RefreshComplete(t) =>
            /\ \A k \in 1..Len(frame[t].in_payments) :
                  LET ti == Visible[k]
                  IN  ~ ti.m_pending /\ ~ ti.m_failed /\ ti.m_direction = "Direction_In"
            /\ \A k \in 1..Len(frame[t].out_payments) :
                  LET ti == Visible[Offset2(t) + k]
                  IN  ~ ti.m_pending /\ ~ ti.m_failed /\ ti.m_direction = "Direction_Out"
            /\ \A k \in 1..Len(frame[t].upayments_out) :
                  LET ti == Visible[Offset3(t) + k]
                      pd == frame[t].upayments_out[k].second
                  IN  /\ ti.m_pending
                      /\ ti.m_failed <=> (pd.m_state = "failed")
                      /\ ti.m_direction = "Direction_Out"
            /\ \A k \in 1..Len(frame[t].upayments) :
                  LET ti == Visible[Offset4(t) + k]
                  IN  ti.m_pending /\ ~ ti.m_failed /\ ti.m_direction = "Direction_In"

\* C17's case: refresh() has normalised a pending outgoing transfer whose state
\* is failed.
C17_Witness ==
    \E t \in Threads :
        /\ RefreshComplete(t)
        /\ Len(frame[t].upayments_out) = 1
        /\ frame[t].upayments_out[1].second.m_state = "failed"
        /\ Visible[Offset3(t) + 1].m_failed
        /\ Visible[Offset3(t) + 1].m_pending

\* C19: for every outgoing record, modulo 2^64, amount + change = amountOut,
\* with the change the branch uses (0 for the all-ones sentinel in a confirmed
\* record, the raw change in a pending one), whatever amountIn is; the amount
\* has wrapped (it is above amountOut) exactly when that change is above
\* amountOut, and the fee has wrapped (it is above amountIn) exactly when
\* amountOut is above amountIn.
C19_OutgoingAmountIsOutMinusChange ==
    \A t \in Threads :
        RefreshComplete(t) =>
            /\ \A k \in 1..Len(frame[t].out_payments) :
                  LET pd     == frame[t].out_payments[k].second
                      ti     == Visible[Offset2(t) + k]
                      change == IF pd.m_change = UINT64_MAX THEN U64(0) ELSE pd.m_change
                  IN  /\ Add64(ti.m_amount, change) = pd.m_amount_out
                      /\ Gt64(ti.m_amount, pd.m_amount_out) <=> Gt64(change, pd.m_amount_out)
                      /\ Gt64(ti.m_fee, pd.m_amount_in)
                            <=> Gt64(pd.m_amount_out, pd.m_amount_in)
            /\ \A k \in 1..Len(frame[t].upayments_out) :
                  LET pd == frame[t].upayments_out[k].second
                      ti == Visible[Offset3(t) + k]
                  IN  /\ Add64(ti.m_amount, pd.m_change) = pd.m_amount_out
                      /\ Gt64(ti.m_amount, pd.m_amount_out)
                            <=> Gt64(pd.m_change, pd.m_amount_out)
                      /\ Gt64(ti.m_fee, pd.m_amount_in)
                            <=> Gt64(pd.m_amount_out, pd.m_amount_in)

\* C19's case: refresh() has normalised a pending outgoing transfer whose
\* change, 200, is above its amountOut, 100, with an amountIn of 0: the amount
\* has wrapped, and so has the fee.
C19_Witness ==
    \E t \in Threads :
        /\ RefreshComplete(t)
        /\ Len(frame[t].upayments_out) = 1
        /\ frame[t].upayments_out[1].second.m_amount_in = U64(0)
        /\ frame[t].upayments_out[1].second.m_amount_out = U64(100)
        /\ frame[t].upayments_out[1].second.m_change = U64(200)
        /\ Gt64(Visible[Offset3(t) + 1].m_amount, U64(100))
        /\ Gt64(Visible[Offset3(t) + 1].m_fee, U64(0))

=============================================================================
